---- MODULE Spec2Model ----
(***************************************************************************)
(* Mission Configuration & Catalog Administration Controller.              *)
(*                                                                         *)
(* The model covers the App component (catalog cache, selection state,     *)
(* request builder, evaluation session), the QuoteCard presenter gate and  *)
(* the AssetManager overlay (catalog editor with its two forms), together  *)
(* with the remote catalog / evaluation service they talk to.              *)
(*                                                                         *)
(* JavaScript is single threaded: every handler and every continuation     *)
(* after an `await` runs to completion, so each is one atomic action.      *)
(* What interleaves are the operator's events, the service's handling of   *)
(* each request and the delivery of each response.                         *)
(***************************************************************************)
EXTENDS Integers, Sequences, FiniteSets, TLC

(***************************************************************************)
(* Bounds of the model.                                                    *)
(***************************************************************************)
MaxLoads == 2        \* loadAssets invocations outstanding at once
MaxEditorCalls == 2  \* AssetManager calls (mutations + fetchData) outstanding at once
MaxId == 2           \* largest id the remote catalog hands out
MaxCatalogCalls == 1 \* AssetManager calls outstanding at once in SpecCatalog

(***************************************************************************)
(* Program constants.                                                      *)
(***************************************************************************)
Unset == 0                    \* useState<number>(0): no platform / payload selected
DefaultMonth == 6
DefaultDuration == 30
DefaultRadius == 50
DefaultMargin == 30
DefaultLat == 45
DefaultLon == 10
PlatformCapexDefault == 30000
PayloadCapexDefault == 10000
Undefined == -1               \* a property missing from `{} as Platform`

(***************************************************************************)
(* Optional values: null is the empty sequence, a present value x is <<x>>.*)
(***************************************************************************)
Null == <<>>
Some(x) == <<x>>
Get(o) == o[1]

RemoveAt(s, i) == SubSeq(s, 1, i - 1) \o SubSeq(s, i + 1, Len(s))
Ids(list) == {list[k].id : k \in 1..Len(list)}
SetMax(S) == IF S = {} THEN 0 ELSE CHOOSE m \in S : \A x \in S : x <= m

(***************************************************************************)
(* Inputs the operator and the services are drawn from.                    *)
(***************************************************************************)
MonthInputs == {1, 12}                 \* range slider 1..12
DurationInputs == {7, 180, 500}        \* number input: min/max do not constrain typed values
RadiusInputs == {10, 200}              \* range slider 10..200 step 10
MarginInputs == {10, 50}               \* range slider 10..50 step 5
MapClicks == {<<41, 12>>}              \* onLocationSelect(lat, lon)
CapexInputs == {0}                     \* values typed in a form's CAPEX field

Entity(i, c) == [id |-> i, capex |-> c]
InitialPlatformLists == {<<>>, <<Entity(1, PlatformCapexDefault), Entity(2, PlatformCapexDefault)>>}
InitialPayloadLists == {<<Entity(1, PayloadCapexDefault)>>}

\* SimulationResponse: the fields the presenter gates on and shows.  An infeasible
\* scenario may still have a feasible power analysis.
Responses ==
    {[is_feasible |-> f, power_is_feasible |-> TRUE,
      price_quoted |-> p, total_cost |-> 10000,
      platform_amortized |-> 8000, payload_amortized |-> 1000,
      ops_cost |-> 700, data_cost |-> 300,
      margin_absolute |-> 4286, margin_percent |-> 30]
        : f \in BOOLEAN, p \in {14286}}

VARIABLES
    \* remote services
    dbPlatforms, dbPayloads,
    \* App state (useState hooks)
    platforms, payloads, showAssetManager,
    selectedPlatformId, selectedPayloadId, month, duration, radius, margin, center,
    loading, result,
    \* App: calls in flight and the blocking alert dialog
    loads, simCalls, alertOpen,
    \* has a loadAssets completed successfully yet
    loadedOnce,
    \* AssetManager state (useState hooks) and its forms' drafts
    activeTab, amPlatforms, amPayloads, editingPlatform, editingPayload,
    isCreating, showHelp, platformForm, payloadForm,
    \* AssetManager: calls in flight
    muts, fetches,
    \* the method of the last save or delete call that was rejected (nothing catches it)
    mutationRejected

remoteVars == <<dbPlatforms, dbPayloads>>
cacheVars == <<platforms, payloads>>
selectionVars == <<selectedPlatformId, selectedPayloadId, month, duration, radius, margin, center>>
sessionVars == <<loading, result, simCalls, alertOpen>>
editorVars == <<activeTab, amPlatforms, amPayloads, editingPlatform, editingPayload,
                isCreating, showHelp, platformForm, payloadForm>>
editorCalls == <<muts, fetches>>
vars == <<remoteVars, cacheVars, showAssetManager, selectionVars, sessionVars, loads,
          loadedOnce, editorVars, editorCalls, mutationRejected>>

(***************************************************************************)
(* App: loadAssets.  The closure reads the selectedPlatformId and          *)
(* selectedPayloadId of the render that created it; the two GETs are       *)
(* awaited one after the other.                                            *)
(***************************************************************************)
NewLoad(selP, selL) ==
    [capPlatformId |-> selP, capPayloadId |-> selL, phase |-> 0, pRes |-> <<>>, plRes |-> <<>>]

\* Seeding with the last entry of the list instead of the first.
SeedSelectionLast(current, captured, list) ==
    IF Len(list) > 0 /\ captured = Unset THEN list[Len(list)].id ELSE current

\* The selection loadAssets leaves after a successful pair of reads.
SeedSelection(current, captured, list) ==
    IF Len(list) > 0 /\ captured = Unset THEN list[1].id ELSE current

Init ==
    /\ dbPlatforms \in InitialPlatformLists
    /\ dbPayloads \in InitialPayloadLists
    /\ platforms = <<>> /\ payloads = <<>>
    /\ showAssetManager = FALSE
    /\ selectedPlatformId = Unset /\ selectedPayloadId = Unset
    /\ month = DefaultMonth /\ duration = DefaultDuration
    /\ radius = DefaultRadius /\ margin = DefaultMargin
    /\ center = <<DefaultLat, DefaultLon>>
    /\ loading = FALSE /\ result = Null
    /\ loads = <<NewLoad(Unset, Unset)>>     \* useEffect(() => { loadAssets(); }, [])
    /\ simCalls = <<>> /\ alertOpen = FALSE
    /\ loadedOnce = FALSE
    /\ activeTab = "platforms" /\ amPlatforms = <<>> /\ amPayloads = <<>>
    /\ editingPlatform = Null /\ editingPayload = Null
    /\ isCreating = FALSE /\ showHelp = FALSE
    /\ platformForm = Null /\ payloadForm = Null
    /\ muts = <<>> /\ fetches = <<>>
    /\ mutationRejected = "none"

\* The service answers GET /api/platforms/ of load i.
ServeLoadPlatforms(i) ==
    /\ loads[i].phase = 0
    /\ loads' = [loads EXCEPT ![i].phase = 1, ![i].pRes = dbPlatforms]
    /\ UNCHANGED <<remoteVars, cacheVars, showAssetManager, selectionVars, sessionVars,
                   loadedOnce, editorVars, editorCalls,
                   mutationRejected>>

\* The first response arrived, GET /api/payloads/ was sent and the service answers it.
ServeLoadPayloads(i) ==
    /\ loads[i].phase = 1
    /\ loads' = [loads EXCEPT ![i].phase = 2, ![i].plRes = dbPayloads]
    /\ UNCHANGED <<remoteVars, cacheVars, showAssetManager, selectionVars, sessionVars,
                   loadedOnce, editorVars, editorCalls,
                   mutationRejected>>

\* Both responses arrived: the rest of the try block.
LoadAssetsDone(i) ==
    /\ ~alertOpen
    /\ loads[i].phase = 2
    /\ platforms' = loads[i].pRes
    /\ payloads' = loads[i].plRes
    /\ selectedPlatformId' =
          SeedSelection(selectedPlatformId, loads[i].capPlatformId, loads[i].pRes)
    /\ selectedPayloadId' =
          SeedSelection(selectedPayloadId, loads[i].capPayloadId, loads[i].plRes)
    /\ loads' = RemoveAt(loads, i)
    /\ loadedOnce' = TRUE
    /\ UNCHANGED <<remoteVars, showAssetManager, month, duration, radius, margin, center,
                   sessionVars, editorVars, editorCalls,
                   mutationRejected>>

\* A catch block reached after the platform list was already stored.
LoadAssetsFailPartial(i) ==
    /\ ~alertOpen
    /\ platforms' = IF loads[i].phase >= 1 THEN loads[i].pRes ELSE platforms
    /\ loads' = RemoveAt(loads, i)
    /\ UNCHANGED <<remoteVars, payloads, showAssetManager, selectionVars, sessionVars,
                   loadedOnce, editorVars, editorCalls,
                   mutationRejected>>

\* Either GET rejects: the catch block only logs to the console.
LoadAssetsFail(i) ==
    /\ ~alertOpen
    /\ loads' = RemoveAt(loads, i)
    /\ UNCHANGED <<remoteVars, cacheVars, showAssetManager, selectionVars, sessionVars,
                   loadedOnce, editorVars, editorCalls,
                   mutationRejected>>

(***************************************************************************)
(* App: handleChange and the map.                                          *)
(***************************************************************************)
\* A handler whose last branch is an else: any other field name sets the margin.
HandleChangeElse(field, value) ==
    /\ selectedPlatformId' = IF field = "platform_id" THEN value ELSE selectedPlatformId
    /\ selectedPayloadId' = IF field = "payload_id" THEN value ELSE selectedPayloadId
    /\ month' = IF field = "month" THEN value ELSE month
    /\ duration' = IF field = "duration" THEN value ELSE duration
    /\ radius' = IF field = "target_radius_km" THEN value ELSE radius
    /\ margin' = IF field \notin {"platform_id", "payload_id", "month", "duration",
                                  "target_radius_km"}
                 THEN value ELSE margin
    /\ UNCHANGED <<remoteVars, cacheVars, showAssetManager, center, sessionVars, loads,
                   loadedOnce, editorVars, editorCalls,
                   mutationRejected>>

HandleChange(field, value) ==
    /\ selectedPlatformId' = IF field = "platform_id" THEN value ELSE selectedPlatformId
    /\ selectedPayloadId' = IF field = "payload_id" THEN value ELSE selectedPayloadId
    /\ month' = IF field = "month" THEN value ELSE month
    /\ duration' = IF field = "duration" THEN value ELSE duration
    /\ radius' = IF field = "target_radius_km" THEN value ELSE radius
    /\ margin' = IF field = "margin" THEN value ELSE margin
    /\ UNCHANGED <<remoteVars, cacheVars, showAssetManager, center, sessionVars, loads,
                   loadedOnce, editorVars, editorCalls,
                   mutationRejected>>

\* What the ControlPanel's inputs can emit: a select emits the value of one of its options.
ControlInputs ==
    ({"platform_id"} \X Ids(platforms)) \cup ({"payload_id"} \X Ids(payloads))
    \cup ({"month"} \X MonthInputs) \cup ({"duration"} \X DurationInputs)
    \cup ({"target_radius_km"} \X RadiusInputs) \cup ({"margin"} \X MarginInputs)

\* The overlay (fixed inset-0) covers the main view while it is shown.
MainViewReachable == ~showAssetManager /\ ~alertOpen

\* One change event of a ControlPanel input whose field is among `fields`.
OperatorChange(fields) ==
    /\ MainViewReachable
    /\ \E in \in ControlInputs : in[1] \in fields /\ HandleChange(in[1], in[2])

SelectFields == {"platform_id", "payload_id"}
ScenarioFields == {"month", "duration", "target_radius_km", "margin"}

OnLocationSelect ==
    /\ MainViewReachable
    /\ \E c \in MapClicks : center' = c
    /\ UNCHANGED <<remoteVars, cacheVars, showAssetManager, selectedPlatformId,
                   selectedPayloadId, month, duration, radius, margin, sessionVars, loads,
                   loadedOnce, editorVars, editorCalls,
                   mutationRejected>>

(***************************************************************************)
(* App: handleSimulate.  margin / 100.0 is kept as the fraction it is.     *)
(***************************************************************************)
Fraction(n, d) == [num |-> n, den |-> d]

\* The request with the margin left on its 0-100 scale.
BuildRequestPercent ==
    [platform_id |-> selectedPlatformId,
     payload_id |-> selectedPayloadId,
     lat |-> center[1],
     lon |-> center[2],
     month |-> month,
     duration_days |-> duration,
     target_radius_km |-> radius,
     margin_percent |-> Fraction(margin, 1)]

BuildRequest ==
    [platform_id |-> selectedPlatformId,
     payload_id |-> selectedPayloadId,
     lat |-> center[1],
     lon |-> center[2],
     month |-> month,
     duration_days |-> duration,
     target_radius_km |-> radius,
     margin_percent |-> Fraction(margin, 100)]

\* handleSimulate dropping the stored result when it starts.
HandleSimulateClearing ==
    /\ loading' = TRUE
    /\ result' = Null
    /\ simCalls' = Append(simCalls, BuildRequest)
    /\ UNCHANGED <<remoteVars, cacheVars, showAssetManager, selectionVars, alertOpen,
                   loads, loadedOnce, editorVars, editorCalls,
                   mutationRejected>>

\* Up to the await of axios.post.
HandleSimulate ==
    /\ loading' = TRUE
    /\ simCalls' = Append(simCalls, BuildRequest)
    /\ UNCHANGED <<remoteVars, cacheVars, showAssetManager, selectionVars, result, alertOpen,
                   loads, loadedOnce, editorVars, editorCalls,
                   mutationRejected>>

\* A button that is never disabled.
SimulateAlwaysEnabled == TRUE

\* The button carries disabled={loading}.
SimulateEnabled == ~loading

ClickSimulate ==
    /\ MainViewReachable
    /\ SimulateEnabled
    /\ HandleSimulate

\* A success path that raises the notice too.
SimulateOkAlerting(i) ==
    /\ ~alertOpen
    /\ \E r \in Responses : result' = Some(r)
    /\ alertOpen' = TRUE
    /\ simCalls' = RemoveAt(simCalls, i)
    /\ UNCHANGED <<remoteVars, cacheVars, showAssetManager, selectionVars, loading, loads,
                   loadedOnce, editorVars, editorCalls,
                   mutationRejected>>

\* The POST resolves: setResult(res.data), then finally.
SimulateOk(i) ==
    /\ ~alertOpen
    /\ \E r \in Responses : result' = Some(r)
    /\ loading' = FALSE
    /\ simCalls' = RemoveAt(simCalls, i)
    /\ UNCHANGED <<remoteVars, cacheVars, showAssetManager, selectionVars, alertOpen, loads,
                   loadedOnce, editorVars, editorCalls,
                   mutationRejected>>

\* A catch block that clears the result.
ResultClearedAfterFailure == Null

\* What the catch block leaves in `result`.
ResultAfterFailure == result

\* The POST rejects: the catch block raises alert("Simulation Failed"), which blocks.
SimulateFail(i) ==
    /\ ~alertOpen
    /\ alertOpen' = TRUE
    /\ result' = ResultAfterFailure
    /\ simCalls' = RemoveAt(simCalls, i)
    /\ UNCHANGED <<remoteVars, cacheVars, showAssetManager, selectionVars, loading, loads,
                   loadedOnce, editorVars, editorCalls,
                   mutationRejected>>

\* A handler without the finally block.
DismissAlertKeepsLoading ==
    /\ alertOpen
    /\ alertOpen' = FALSE
    /\ UNCHANGED <<remoteVars, cacheVars, showAssetManager, selectionVars, loading, result,
                   simCalls, loads, loadedOnce, editorVars, editorCalls,
                   mutationRejected>>

\* The operator dismisses the alert; the finally block runs.
DismissAlert ==
    /\ alertOpen
    /\ alertOpen' = FALSE
    /\ loading' = FALSE
    /\ UNCHANGED <<remoteVars, cacheVars, showAssetManager, selectionVars, result, simCalls,
                   loads, loadedOnce, editorVars, editorCalls,
                   mutationRejected>>

(***************************************************************************)
(* App: the Asset Manager overlay is opened and closed.  A mounted         *)
(* AssetManager starts from its initial state and calls fetchData once;    *)
(* an unmounted one loses its state, while the calls it made go on and     *)
(* their state updates reach nothing (orphan).                             *)
(***************************************************************************)
NewFetch(orph) ==
    [orphan |-> orph, pServed |-> FALSE, pRes |-> <<>>, plServed |-> FALSE, plRes |-> <<>>]

Orphaned(calls) == [k \in 1..Len(calls) |-> [calls[k] EXCEPT !.orphan = TRUE]]

EditorInitial ==
    /\ activeTab' = "platforms" /\ amPlatforms' = <<>> /\ amPayloads' = <<>>
    /\ editingPlatform' = Null /\ editingPayload' = Null
    /\ isCreating' = FALSE /\ showHelp' = FALSE
    /\ platformForm' = Null /\ payloadForm' = Null

\* Calls the model lets the AssetManager have outstanding.
EditorCallRoom == Len(muts) + Len(fetches) < MaxEditorCalls

\* onClick={() => setShowAssetManager(true)}; AssetManager mounts, its effect runs fetchData.
OpenAssetManager ==
    /\ MainViewReachable
    /\ EditorCallRoom
    /\ showAssetManager' = TRUE
    /\ EditorInitial
    /\ fetches' = Append(fetches, NewFetch(FALSE))
    /\ UNCHANGED <<remoteVars, cacheVars, selectionVars, sessionVars, loads, loadedOnce, muts,
                   mutationRejected>>

\* An overlay whose controls stay reachable under a form or the help modal.
OverlayReachableUnderModal == showAssetManager /\ ~alertOpen

\* A form or the help modal (fixed inset-0, above the overlay) covers the overlay's own controls.
ModalOpen == editingPlatform # Null \/ editingPayload # Null \/ showHelp
OverlayReachable == showAssetManager /\ ~alertOpen /\ ~ModalOpen

\* A close handler that only hides the overlay.
NoLoadsOnClose == <<>>

\* The loadAssets calls handleAssetManagerClose makes.
LoadsOnClose == <<NewLoad(selectedPlatformId, selectedPayloadId)>>

HandleAssetManagerClose ==
    /\ OverlayReachable
    /\ Len(loads) < MaxLoads
    /\ showAssetManager' = FALSE
    /\ loads' = loads \o LoadsOnClose
    /\ EditorInitial
    /\ muts' = Orphaned(muts)
    /\ fetches' = Orphaned(fetches)
    /\ UNCHANGED <<remoteVars, cacheVars, selectionVars, sessionVars, loadedOnce,
                   mutationRejected>>

(***************************************************************************)
(* AssetManager: fetchData.  The two GETs are issued together              *)
(* (Promise.all); nothing catches a rejection.                             *)
(***************************************************************************)
ServeFetchPlatforms(i) ==
    /\ ~fetches[i].pServed
    /\ fetches' = [fetches EXCEPT ![i].pServed = TRUE, ![i].pRes = dbPlatforms]
    /\ UNCHANGED <<remoteVars, cacheVars, showAssetManager, selectionVars, sessionVars, loads,
                   loadedOnce, editorVars, muts,
                   mutationRejected>>

ServeFetchPayloads(i) ==
    /\ ~fetches[i].plServed
    /\ fetches' = [fetches EXCEPT ![i].plServed = TRUE, ![i].plRes = dbPayloads]
    /\ UNCHANGED <<remoteVars, cacheVars, showAssetManager, selectionVars, sessionVars, loads,
                   loadedOnce, editorVars, muts,
                   mutationRejected>>

FetchDataDone(i) ==
    /\ ~alertOpen
    /\ fetches[i].pServed /\ fetches[i].plServed
    /\ amPlatforms' = IF fetches[i].orphan THEN amPlatforms ELSE fetches[i].pRes
    /\ amPayloads' = IF fetches[i].orphan THEN amPayloads ELSE fetches[i].plRes
    /\ fetches' = RemoveAt(fetches, i)
    /\ UNCHANGED <<remoteVars, cacheVars, showAssetManager, selectionVars, sessionVars, loads,
                   loadedOnce, activeTab, editingPlatform, editingPayload, isCreating,
                   showHelp, platformForm, payloadForm, muts,
                   mutationRejected>>

FetchDataFail(i) ==
    /\ ~alertOpen
    /\ fetches' = RemoveAt(fetches, i)
    /\ UNCHANGED <<remoteVars, cacheVars, showAssetManager, selectionVars, sessionVars, loads,
                   loadedOnce, editorVars, muts,
                   mutationRejected>>

(***************************************************************************)
(* AssetManager: the forms.  PlatformForm / PayloadForm is mounted while   *)
(* editingPlatform / editingPayload is not null; its draft is initialised  *)
(* once, at mount, from the entity it was given (value || default).        *)
(***************************************************************************)
EmptyObject == [id |-> Undefined, capex |-> Undefined]     \* {} as Platform
Falsy(v) == v = Undefined \/ v = 0
OrDefault(v, d) == IF Falsy(v) THEN d ELSE v

CapexDefault(kind) == IF kind = "platforms" THEN PlatformCapexDefault ELSE PayloadCapexDefault

\* useState({ ..., capex: platform.capex || 30000, ... })
InitialForm(entity, kind) == [capex |-> OrDefault(entity.capex, CapexDefault(kind))]

Editing(kind) == IF kind = "platforms" THEN editingPlatform ELSE editingPayload
Form(kind) == IF kind = "platforms" THEN platformForm ELSE payloadForm

\* A form that is hidden rather than unmounted, keeping its draft.
FormAfterKeeping(was, now, form, kind) ==
    IF now = Null THEN form
    ELSE IF form = Null THEN Some(InitialForm(Get(now), kind))
    ELSE form

\* The draft of a form after its `editing` state went from `was` to `now`.
FormAfter(was, now, form, kind) ==
    IF now = Null THEN Null
    ELSE IF was = Null THEN Some(InitialForm(Get(now), kind))
    ELSE form

\* setEditingPlatform(v) / setEditingPayload(v), and the form following it.
SetEditing(kind, v) ==
    /\ editingPlatform' = IF kind = "platforms" THEN v ELSE editingPlatform
    /\ editingPayload' = IF kind = "payloads" THEN v ELSE editingPayload
    /\ platformForm' = FormAfter(editingPlatform, editingPlatform', platformForm, "platforms")
    /\ payloadForm' = FormAfter(editingPayload, editingPayload', payloadForm, "payloads")

Kinds == {"platforms", "payloads"}
AmList(kind) == IF kind = "platforms" THEN amPlatforms ELSE amPayloads

SetActiveTab ==
    /\ OverlayReachable
    /\ \E tab \in Kinds : activeTab' = tab
    /\ UNCHANGED <<remoteVars, cacheVars, showAssetManager, selectionVars, sessionVars, loads,
                   loadedOnce, amPlatforms, amPayloads, editingPlatform, editingPayload,
                   isCreating, showHelp, platformForm, payloadForm, editorCalls,
                   mutationRejected>>

OpenHelp ==
    /\ OverlayReachable
    /\ showHelp' = TRUE
    /\ UNCHANGED <<remoteVars, cacheVars, showAssetManager, selectionVars, sessionVars, loads,
                   loadedOnce, activeTab, amPlatforms, amPayloads, editingPlatform,
                   editingPayload, isCreating, platformForm, payloadForm, editorCalls,
                   mutationRejected>>

CloseHelp ==
    /\ showAssetManager /\ ~alertOpen /\ showHelp
    /\ showHelp' = FALSE
    /\ UNCHANGED <<remoteVars, cacheVars, showAssetManager, selectionVars, sessionVars, loads,
                   loadedOnce, activeTab, amPlatforms, amPayloads, editingPlatform,
                   editingPayload, isCreating, platformForm, payloadForm, editorCalls,
                   mutationRejected>>

\* "+ Aggiungi": setIsCreating(true); setEditingPlatform({} as Platform)
StartCreate(kind) ==
    /\ OverlayReachable /\ activeTab = kind
    /\ isCreating' = TRUE
    /\ SetEditing(kind, Some(EmptyObject))
    /\ UNCHANGED <<remoteVars, cacheVars, showAssetManager, selectionVars, sessionVars, loads,
                   loadedOnce, activeTab, amPlatforms, amPayloads, showHelp, editorCalls,
                   mutationRejected>>

\* "Modifica": setEditingPlatform(p)
StartEdit(kind, entity) ==
    /\ OverlayReachable /\ activeTab = kind
    /\ SetEditing(kind, Some(entity))
    /\ UNCHANGED <<remoteVars, cacheVars, showAssetManager, selectionVars, sessionVars, loads,
                   loadedOnce, activeTab, amPlatforms, amPayloads, isCreating, showHelp,
                   editorCalls,
                   mutationRejected>>

FormReachable(kind) == showAssetManager /\ ~alertOpen /\ Editing(kind) # Null

\* onChange of the CAPEX input: setForm({ ...form, capex: +v })
EditField(kind, v) ==
    /\ FormReachable(kind)
    /\ platformForm' = IF kind = "platforms" THEN Some([Get(platformForm) EXCEPT !.capex = v])
                       ELSE platformForm
    /\ payloadForm' = IF kind = "payloads" THEN Some([Get(payloadForm) EXCEPT !.capex = v])
                      ELSE payloadForm
    /\ UNCHANGED <<remoteVars, cacheVars, showAssetManager, selectionVars, sessionVars, loads,
                   loadedOnce, activeTab, amPlatforms, amPayloads, editingPlatform,
                   editingPayload, isCreating, showHelp, editorCalls,
                   mutationRejected>>

\* "Annulla": setEditingPlatform(null); setIsCreating(false)
Cancel(kind) ==
    /\ FormReachable(kind)
    /\ SetEditing(kind, Null)
    /\ isCreating' = FALSE
    /\ UNCHANGED <<remoteVars, cacheVars, showAssetManager, selectionVars, sessionVars, loads,
                   loadedOnce, activeTab, amPlatforms, amPayloads, showHelp, editorCalls,
                   mutationRejected>>

(***************************************************************************)
(* AssetManager: savePlatform / savePayload and deletePlatform /           *)
(* deletePayload, up to their await.                                       *)
(***************************************************************************)
NewMut(kind, method, id, data) ==
    [orphan |-> FALSE, kind |-> kind, method |-> method, id |-> id, data |-> data]

\* A save that creates whatever the session is.
SaveCallAlwaysPost(kind, editing, data) == NewMut(kind, "POST", Undefined, Some(data))

\* if (editingPlatform?.id) PUT else POST
SaveCall(kind, editing, data) ==
    IF ~Falsy(Get(editing).id)
    THEN NewMut(kind, "PUT", Get(editing).id, Some(data))
    ELSE NewMut(kind, "POST", Undefined, Some(data))

\* The calls one click on "Salva" dispatches: handleSubmit -> onSave(form).
SaveCalls(kind) == <<SaveCall(kind, Editing(kind), Get(Form(kind)))>>

Save(kind) ==
    /\ FormReachable(kind)
    /\ EditorCallRoom
    /\ muts' = muts \o SaveCalls(kind)
    /\ UNCHANGED <<remoteVars, cacheVars, showAssetManager, selectionVars, sessionVars, loads,
                   loadedOnce, editorVars, fetches,
                   mutationRejected>>

\* A delete that does not look at the answer to confirm().
DeleteWithoutConfirm(kind, id, confirmed) ==
    /\ OverlayReachable /\ activeTab = kind
    /\ EditorCallRoom
    /\ muts' = Append(muts, NewMut(kind, "DELETE", id, Null))
    /\ UNCHANGED <<remoteVars, cacheVars, showAssetManager, selectionVars, sessionVars, loads,
                   loadedOnce, editorVars, fetches,
                   mutationRejected>>

\* "Elimina": if (!confirm(...)) return; await axios.delete(...)
Delete(kind, id, confirmed) ==
    /\ OverlayReachable /\ activeTab = kind
    /\ EditorCallRoom
    /\ muts' = IF confirmed THEN Append(muts, NewMut(kind, "DELETE", id, Null)) ELSE muts
    /\ UNCHANGED <<remoteVars, cacheVars, showAssetManager, selectionVars, sessionVars, loads,
                   loadedOnce, editorVars, fetches,
                   mutationRejected>>

(***************************************************************************)
(* The remote catalog service (external to the sources at hand): ids grow  *)
(* from the largest one in the list; an update or a delete of an id the    *)
(* list no longer holds is rejected.                                       *)
(***************************************************************************)
Db(kind) == IF kind = "platforms" THEN dbPlatforms ELSE dbPayloads

ServiceAccepts(list, m) ==
    IF m.method = "POST" THEN SetMax(Ids(list)) + 1 <= MaxId ELSE m.id \in Ids(list)

ServiceApply(list, m) ==
    CASE m.method = "POST" ->
            Append(list, [id |-> SetMax(Ids(list)) + 1, capex |-> Get(m.data).capex])
      [] m.method = "PUT" ->
            [k \in 1..Len(list) |->
                IF list[k].id = m.id THEN [id |-> m.id, capex |-> Get(m.data).capex]
                ELSE list[k]]
      [] OTHER -> SelectSeq(list, LAMBDA e : e.id # m.id)

(***************************************************************************)
(* AssetManager: the continuations of the save and delete handlers.        *)
(***************************************************************************)
\* A handler that forgets to refresh.
NoFetchesAfter(m) == <<>>

\* The fetchData calls made after a mutation resolved.
FetchesAfter(m) == <<NewFetch(m.orphan)>>

\* After the await of a save: setEditingX(null); setIsCreating(false).
SaveResolved(m) ==
    IF m.orphan
    THEN UNCHANGED <<editingPlatform, editingPayload, platformForm, payloadForm, isCreating>>
    ELSE SetEditing(m.kind, Null) /\ isCreating' = FALSE

\* A handler that closes the form in a finally block.
MutationRejectedClosing(m) == SaveResolved(m)

\* After a rejected call nothing runs: the rejection is not caught.
MutationRejected(m) ==
    UNCHANGED <<editingPlatform, editingPayload, platformForm, payloadForm, isCreating>>

\* A handler that patches the editor's list itself once the call resolved.
MutationOkOptimistic(i) ==
    LET m == muts[i] IN
    /\ ~alertOpen
    /\ ServiceAccepts(Db(m.kind), m)
    /\ dbPlatforms' = IF m.kind = "platforms" THEN ServiceApply(dbPlatforms, m) ELSE dbPlatforms
    /\ dbPayloads' = IF m.kind = "payloads" THEN ServiceApply(dbPayloads, m) ELSE dbPayloads
    /\ amPlatforms' = IF m.kind = "platforms" /\ ~m.orphan
                      THEN ServiceApply(amPlatforms, m) ELSE amPlatforms
    /\ amPayloads' = IF m.kind = "payloads" /\ ~m.orphan
                     THEN ServiceApply(amPayloads, m) ELSE amPayloads
    /\ IF m.method = "DELETE"
       THEN UNCHANGED <<editingPlatform, editingPayload, platformForm, payloadForm, isCreating>>
       ELSE SaveResolved(m)
    /\ muts' = RemoveAt(muts, i)
    /\ fetches' = fetches \o FetchesAfter(m)
    /\ UNCHANGED <<cacheVars, showAssetManager, selectionVars, sessionVars, loads, loadedOnce,
                   activeTab, showHelp,
                   mutationRejected>>

MutationOk(i) ==
    LET m == muts[i] IN
    /\ ~alertOpen
    /\ ServiceAccepts(Db(m.kind), m)
    /\ dbPlatforms' = IF m.kind = "platforms" THEN ServiceApply(dbPlatforms, m) ELSE dbPlatforms
    /\ dbPayloads' = IF m.kind = "payloads" THEN ServiceApply(dbPayloads, m) ELSE dbPayloads
    /\ IF m.method = "DELETE"
       THEN UNCHANGED <<editingPlatform, editingPayload, platformForm, payloadForm, isCreating>>
       ELSE SaveResolved(m)
    /\ muts' = RemoveAt(muts, i)
    /\ fetches' = fetches \o FetchesAfter(m)
    /\ UNCHANGED <<cacheVars, showAssetManager, selectionVars, sessionVars, loads, loadedOnce,
                   activeTab, amPlatforms, amPayloads, showHelp,
                   mutationRejected>>

MutationFail(i) ==
    /\ ~alertOpen
    /\ MutationRejected(muts[i])
    /\ muts' = RemoveAt(muts, i)
    /\ mutationRejected' = muts[i].method
    /\ UNCHANGED <<remoteVars, cacheVars, showAssetManager, selectionVars, sessionVars, loads,
                   loadedOnce, activeTab, amPlatforms, amPayloads, showHelp, fetches>>

(***************************************************************************)
(* The specification.                                                      *)
(***************************************************************************)
\* loadAssets in flight.
LoadSteps ==
    \/ \E i \in 1..Len(loads) : ServeLoadPlatforms(i)
    \/ \E i \in 1..Len(loads) : ServeLoadPayloads(i)
    \/ \E i \in 1..Len(loads) : LoadAssetsDone(i)
    \/ \E i \in 1..Len(loads) : LoadAssetsFail(i)

\* The mission configurator: scenario parameters and the evaluation session.
SessionSteps ==
    \/ OperatorChange(ScenarioFields)
    \/ OnLocationSelect
    \/ ClickSimulate
    \/ \E i \in 1..Len(simCalls) : SimulateOk(i)
    \/ \E i \in 1..Len(simCalls) : SimulateFail(i)
    \/ DismissAlert

\* fetchData in flight.
FetchSteps ==
    \/ \E i \in 1..Len(fetches) : ServeFetchPlatforms(i)
    \/ \E i \in 1..Len(fetches) : ServeFetchPayloads(i)
    \/ \E i \in 1..Len(fetches) : FetchDataDone(i)
    \/ \E i \in 1..Len(fetches) : FetchDataFail(i)

\* Save and delete calls in flight.
MutationSteps ==
    \/ \E i \in 1..Len(muts) : MutationOk(i)
    \/ \E i \in 1..Len(muts) : MutationFail(i)

\* The operator at the list and the form of the kinds in `kinds`.
EntitySteps(kinds) ==
    \/ \E kind \in kinds : StartCreate(kind)
    \/ \E kind \in kinds : \E k \in 1..Len(AmList(kind)) : StartEdit(kind, AmList(kind)[k])
    \/ \E kind \in kinds : \E v \in CapexInputs : EditField(kind, v)
    \/ \E kind \in kinds : Cancel(kind)
    \/ \E kind \in kinds : Save(kind)
    \/ \E kind \in kinds : \E k \in 1..Len(AmList(kind)) : \E confirmed \in BOOLEAN :
          Delete(kind, AmList(kind)[k].id, confirmed)

\* The Asset Manager overlay.
EditorSteps ==
    \/ OpenAssetManager
    \/ HandleAssetManagerClose
    \/ FetchSteps
    \/ SetActiveTab
    \/ OpenHelp
    \/ CloseHelp
    \/ EntitySteps(Kinds)
    \/ MutationSteps

Next == LoadSteps \/ OperatorChange(SelectFields) \/ SessionSteps \/ EditorSteps

Spec == Init /\ [][Next]_vars

(***************************************************************************)
(* The state space of Spec is beyond exhaustive search, so the properties  *)
(* are checked on three scenarios.  Each takes the actions of Next that    *)
(* touch the state its properties read and leaves the other operator       *)
(* actions out, which keeps the variables they alone write at their        *)
(* initial values.                                                         *)
(***************************************************************************)
\* The mission configurator: the overlay stays closed.
NextSession == LoadSteps \/ OperatorChange(SelectFields) \/ SessionSteps
SpecSession == Init /\ [][NextSession]_vars

\* The evaluation session alone (of the scenario parameters only the margin is
\* changed), with the evaluation service answering every call and alert()
\* returning (the operator dismisses the dialog, the only thing the page lets
\* them do while it is up).
SimulateResolves == \E i \in 1..Len(simCalls) : SimulateOk(i) \/ SimulateFail(i)
NextSessionLive ==
    \/ LoadSteps
    \/ OperatorChange({"margin"})
    \/ ClickSimulate
    \/ \E i \in 1..Len(simCalls) : SimulateOk(i)
    \/ \E i \in 1..Len(simCalls) : SimulateFail(i)
    \/ DismissAlert
SpecSessionLive ==
    Init /\ [][NextSessionLive]_vars /\ WF_vars(SimulateResolves) /\ WF_vars(DismissAlert)

\* The catalog cache of the main view against the remote catalog: the operator
\* opens and closes the overlay, creates and deletes platforms with one editor
\* call outstanding at a time, and changes the selection; every call succeeds
\* except loadAssets, which may fail.
CatalogCallRoom == Len(muts) + Len(fetches) < MaxCatalogCalls

NextCatalog ==
    \/ LoadSteps
    \/ OperatorChange(SelectFields)
    \/ OpenAssetManager /\ CatalogCallRoom
    \/ HandleAssetManagerClose
    \/ \E i \in 1..Len(fetches) : ServeFetchPlatforms(i)
    \/ \E i \in 1..Len(fetches) : ServeFetchPayloads(i)
    \/ \E i \in 1..Len(fetches) : FetchDataDone(i)
    \/ StartCreate("platforms")
    \/ Cancel("platforms")
    \/ Save("platforms") /\ CatalogCallRoom
    \/ \E k \in 1..Len(amPlatforms) :
          Delete("platforms", amPlatforms[k].id, TRUE) /\ CatalogCallRoom
    \/ \E i \in 1..Len(muts) : MutationOk(i)
SpecCatalog == Init /\ [][NextCatalog]_vars

\* The catalog editor: the overlay is opened and stays open, the operator works
\* on the platforms tab, and the calls of the editor succeed or fail.
NextEditor ==
    \/ OpenAssetManager
    \/ FetchSteps
    \/ OpenHelp
    \/ CloseHelp
    \/ EntitySteps({"platforms"})
    \/ MutationSteps
SpecEditor == Init /\ [][NextEditor]_vars

\* The two refreshes against the remote catalog: the overlay is opened and closed,
\* platforms are created and deleted with one editor call outstanding at a time,
\* and either refresh (loadAssets, fetchData) may fail.
NextRefresh ==
    \/ LoadSteps
    \/ OpenAssetManager /\ CatalogCallRoom
    \/ HandleAssetManagerClose
    \/ FetchSteps
    \/ StartCreate("platforms")
    \/ Cancel("platforms")
    \/ Save("platforms") /\ CatalogCallRoom
    \/ \E k \in 1..Len(amPlatforms) :
          Delete("platforms", amPlatforms[k].id, TRUE) /\ CatalogCallRoom
    \/ \E i \in 1..Len(muts) : MutationOk(i)
SpecRefresh == Init /\ [][NextRefresh]_vars

\* The same with every call completing successfully.
NextConverge ==
    \/ \E i \in 1..Len(loads) : ServeLoadPlatforms(i)
    \/ \E i \in 1..Len(loads) : ServeLoadPayloads(i)
    \/ \E i \in 1..Len(loads) : LoadAssetsDone(i)
    \/ OpenAssetManager /\ CatalogCallRoom
    \/ HandleAssetManagerClose
    \/ \E i \in 1..Len(fetches) : ServeFetchPlatforms(i)
    \/ \E i \in 1..Len(fetches) : ServeFetchPayloads(i)
    \/ \E i \in 1..Len(fetches) : FetchDataDone(i)
    \/ StartCreate("platforms")
    \/ Cancel("platforms")
    \/ Save("platforms") /\ CatalogCallRoom
    \/ \E k \in 1..Len(amPlatforms) :
          Delete("platforms", amPlatforms[k].id, TRUE) /\ CatalogCallRoom
    \/ \E i \in 1..Len(muts) : MutationOk(i)
SpecConverge == Init /\ [][NextConverge]_vars

\* The two forms of the catalog editor: the overlay is opened and stays open, the
\* operator switches tabs, opens, fills, cancels and saves the form of either
\* kind with one editor call outstanding at a time, and every call succeeds.
NextForms ==
    \/ OpenAssetManager /\ CatalogCallRoom
    \/ \E i \in 1..Len(fetches) : ServeFetchPlatforms(i)
    \/ \E i \in 1..Len(fetches) : ServeFetchPayloads(i)
    \/ \E i \in 1..Len(fetches) : FetchDataDone(i)
    \/ SetActiveTab
    \/ OpenHelp
    \/ CloseHelp
    \/ \E kind \in Kinds : StartCreate(kind)
    \/ \E kind \in Kinds : \E k \in 1..Len(AmList(kind)) : StartEdit(kind, AmList(kind)[k])
    \/ \E kind \in Kinds : \E v \in CapexInputs : EditField(kind, v)
    \/ \E kind \in Kinds : Cancel(kind)
    \/ \E kind \in Kinds : Save(kind) /\ CatalogCallRoom
    \/ \E i \in 1..Len(muts) : MutationOk(i)
SpecForms == Init /\ [][NextForms]_vars

\* The catalog editor with every call completing successfully: the overlay is
\* opened and stays open, and the operator works on the platforms tab.
NextEditorOk ==
    \/ OpenAssetManager
    \/ \E i \in 1..Len(fetches) : ServeFetchPlatforms(i)
    \/ \E i \in 1..Len(fetches) : ServeFetchPayloads(i)
    \/ \E i \in 1..Len(fetches) : FetchDataDone(i)
    \/ EntitySteps({"platforms"})
    \/ \E i \in 1..Len(muts) : MutationOk(i)
SpecEditorOk == Init /\ [][NextEditorOk]_vars

\* handleChange as a function: called with every field name, one it does not
\* recognise included, while the catalog loads and an evaluation runs.
HandleChangeFields ==
    {"platform_id", "payload_id", "month", "duration", "target_radius_km", "margin", "altitude"}
HandleChangeValues == {12}
NextHandleChange ==
    \/ LoadSteps
    \/ \E field \in HandleChangeFields : \E value \in HandleChangeValues :
          HandleChange(field, value)
    \/ ClickSimulate
    \/ \E i \in 1..Len(simCalls) : SimulateOk(i)
SpecHandleChange == Init /\ [][NextHandleChange]_vars

(***************************************************************************)
(* QuoteCard: what is rendered for a stored result.                        *)
(***************************************************************************)
ShowsPlaceholder(res) == res = Null

\* A quote section gated on the power analysis instead.
QuoteGateOnPower(r) == r.power_is_feasible

\* {is_feasible && ( ...quote... )}
QuoteGate(r) == r.is_feasible

\* A quote section showing the cost where the price belongs.
QuoteSectionShowingCost(r) ==
    [price_quoted |-> r.total_cost,
     lines |-> <<r.platform_amortized, r.payload_amortized, r.ops_cost + r.data_cost>>,
     margin_percent |-> r.margin_percent,
     margin_absolute |-> r.margin_absolute]

\* A quote section whose third line leaves the data cost out.
QuoteSectionOpsOnly(r) ==
    [price_quoted |-> r.price_quoted,
     lines |-> <<r.platform_amortized, r.payload_amortized, r.ops_cost>>,
     margin_percent |-> r.margin_percent,
     margin_absolute |-> r.margin_absolute]

\* The quote section: the price, the breakdown lines "Piattaforma", "Payload" and
\* "Operazioni & Dati", and the "Margine Netto" line.
QuoteSection(r) ==
    [price_quoted |-> r.price_quoted,
     lines |-> <<r.platform_amortized, r.payload_amortized, r.ops_cost + r.data_cost>>,
     margin_percent |-> r.margin_percent,
     margin_absolute |-> r.margin_absolute]

\* What QuoteCard renders: the sections present and the content of the quote section.
Render(res) ==
    IF ShowsPlaceholder(res)
    THEN [sections |-> {"placeholder"}, quote |-> Null]
    ELSE [sections |-> {"status", "power", "flight", "fleet"}
                          \cup (IF QuoteGate(Get(res)) THEN {"quote"} ELSE {}),
          quote |-> IF QuoteGate(Get(res)) THEN Some(QuoteSection(Get(res))) ELSE Null]

(***************************************************************************)
(* Evaluation session (checked under SpecSession).                         *)
(***************************************************************************)
SimulateFails == \E i \in 1..Len(simCalls) : SimulateFail(i)
SimulateSucceeds == \E i \in 1..Len(simCalls) : SimulateOk(i)

\* C1: at most one evaluation call is in flight at any time, and while one is in
\* flight the submit button is disabled (loading), so that a further submit
\* dispatches nothing and changes neither loading nor result.
C1_SingleFlightEvaluation ==
    /\ Len(simCalls) <= 1
    /\ Len(simCalls) = 1 => loading

C1_Witness == Len(simCalls) = 1 /\ loading /\ result # Null

RequestCopiesSelection(r) ==
    /\ r.margin_percent.num * 100 = margin * r.margin_percent.den
    /\ r.platform_id = selectedPlatformId
    /\ r.payload_id = selectedPayloadId
    /\ r.lat = center[1]
    /\ r.lon = center[2]
    /\ r.month = month
    /\ r.duration_days = duration
    /\ r.target_radius_km = radius

\* C6: the request a submit dispatches has margin_percent = margin / 100 for every
\* margin in 10..50, and carries the platform id, payload id, latitude, longitude,
\* month, duration and radius of the selection state at the moment of submission.
C6_RequestBuilder ==
    [][Len(simCalls') > Len(simCalls) /\ margin \in 10..50
          => RequestCopiesSelection(simCalls'[Len(simCalls')])]_vars

C6_Witness ==
    /\ Len(simCalls) = 1
    /\ simCalls[1].margin_percent = Fraction(50, 100)
    /\ simCalls[1].lat = 41
    /\ simCalls[1].platform_id = 2
    /\ simCalls[1].duration_days = 180

\* C7 as claimed: a failed evaluation call clears the stored result.
C7_FailureClearsResult == [][SimulateFails => result' = Null]_vars

\* C7 as amended: a failed evaluation call leaves the stored result as it was, so a
\* result of an earlier successful evaluation stays displayed, and the placeholder
\* is shown after the failure only if no result was stored before it.
C7_FailureKeepsResult ==
    [][SimulateFails =>
          /\ result' = result
          /\ ShowsPlaceholder(result') <=> result = Null]_vars

C7_Witness == alertOpen /\ result # Null /\ simCalls = <<>>

\* C8: the stored result is never cleared (once present it stays present), and the
\* only step that changes it is the successful completion of an evaluation call,
\* which stores that call's response.
C8_ResultNeverCleared ==
    [][/\ result # Null => result' # Null
       /\ result' # result => SimulateSucceeds /\ \E r \in Responses : result' = Some(r)]_vars

C8_Witness == result # Null /\ Len(simCalls) = 1 /\ ~alertOpen /\ month = 12

(***************************************************************************)
(* Catalog cache and selection of the main view (checked under             *)
(* SpecCatalog).                                                           *)
(***************************************************************************)
LoadAssetsCompletes == \E i \in 1..Len(loads) : LoadAssetsDone(i)

\* C3 as claimed: once selected_platform_id (resp. selected_payload_id) is nonzero,
\* no completion of a catalog refresh changes it.
C3_RefreshKeepsSelection ==
    [][LoadAssetsCompletes =>
          /\ selectedPlatformId # Unset => selectedPlatformId' = selectedPlatformId
          /\ selectedPayloadId # Unset => selectedPayloadId' = selectedPayloadId]_vars

\* C4: when the selection is unset and the first successful refresh returns a
\* non-empty platform list and a non-empty payload list, its completion leaves
\* selected_platform_id at the id of the first platform returned and
\* selected_payload_id at the id of the first payload returned.
C4_BootstrapSeedsFirstEntries ==
    [][\A i \in 1..Len(loads) :
          (/\ LoadAssetsDone(i)
           /\ ~loadedOnce
           /\ selectedPlatformId = Unset /\ selectedPayloadId = Unset
           /\ loads[i].pRes # <<>> /\ loads[i].plRes # <<>>)
          => /\ selectedPlatformId' = loads[i].pRes[1].id
             /\ selectedPayloadId' = loads[i].plRes[1].id]_vars

C4_Witness ==
    /\ loadedOnce
    /\ Len(platforms) = 2 /\ selectedPlatformId = platforms[1].id
    /\ Len(payloads) = 1 /\ selectedPayloadId = payloads[1].id
    /\ loads = <<>>

\* C5 as claimed: once the catalog cache has been loaded (and holds an entry to
\* select), selected_platform_id is the id of a cached platform and
\* selected_payload_id the id of a cached payload.
C5_SelectionReferencesCache ==
    loadedOnce =>
        /\ platforms # <<>> => selectedPlatformId \in Ids(platforms)
        /\ payloads # <<>> => selectedPayloadId \in Ids(payloads)

(***************************************************************************)
(* Catalog editor (checked under SpecEditor).                              *)
(***************************************************************************)
\* C2 as claimed: at most one catalog-mutation call (create, update or delete) is
\* in flight at any time.
C2_SingleFlightMutation == Len(muts) <= 1

formVars == <<editingPlatform, editingPayload, platformForm, payloadForm, isCreating>>

\* C9: when a save call (update or create) is rejected, the form session stays as
\* it was: still open, with the draft holding the values the operator entered.
C9_FailedSaveKeepsDraft ==
    [][\A i \in 1..Len(muts) :
          MutationFail(i) /\ muts[i].method # "DELETE" => UNCHANGED formVars]_vars

\* An edit session of platform 1 whose update was rejected: the form is open and
\* the draft holds the value typed, not the entity's.
C9_Witness ==
    /\ mutationRejected = "PUT" /\ muts = <<>>
    /\ editingPlatform # Null /\ platformForm # Null
    /\ Get(editingPlatform).id = 1
    /\ Get(editingPlatform).capex = PlatformCapexDefault
    /\ Get(platformForm).capex = 0
    /\ dbPlatforms[1] = Entity(1, PlatformCapexDefault)

CreateSession(kind) == Editing(kind) = Some(EmptyObject) /\ isCreating

\* C10: a save of a session opened by startCreate dispatches exactly one call, a
\* create; when a create resolves, the form session is closed and exactly one
\* refresh (one read of each list, both still to be served) is triggered.
C10_CreateThenRefreshOnce ==
    [][/\ \A kind \in Kinds :
             Save(kind) /\ CreateSession(kind) =>
                /\ Len(muts') = Len(muts) + 1
                /\ muts'[Len(muts')].method = "POST"
                /\ muts'[Len(muts')].kind = kind
                /\ fetches' = fetches
       /\ \A i \in 1..Len(muts) :
             MutationOk(i) /\ muts[i].method = "POST" /\ ~muts[i].orphan =>
                /\ muts[i].kind = "platforms" => editingPlatform' = Null /\ platformForm' = Null
                /\ muts[i].kind = "payloads" => editingPayload' = Null /\ payloadForm' = Null
                /\ ~isCreating'
                /\ Len(muts') = Len(muts) - 1
                /\ fetches' = Append(fetches, NewFetch(FALSE))
                /\ loads' = loads]_vars

\* The catalog was empty, one create resolved: the form is closed and the one
\* refresh it triggered is outstanding.
C10_Witness ==
    /\ Len(dbPlatforms) = 1 /\ amPlatforms = <<>>
    /\ editingPlatform = Null /\ platformForm = Null /\ ~isCreating
    /\ muts = <<>> /\ mutationRejected = "none"
    /\ fetches = <<NewFetch(FALSE)>>

FormNext(kind) == IF kind = "platforms" THEN platformForm' ELSE payloadForm'
EditingNext(kind) == IF kind = "platforms" THEN editingPlatform' ELSE editingPayload'
LastMut == muts'[Len(muts')]

\* C11: a session opened by startCreate holds the empty object and one opened by
\* startEdit holds the catalog entity it was opened on; a save dispatches a POST
\* exactly when the session was opened by startCreate and a PUT keyed by the
\* entity's id exactly when it was opened by startEdit, and in both cases the body
\* is the whole draft of the form.
C11_SaveCreatesOrUpdates ==
    [][\A kind \in Kinds :
          /\ StartCreate(kind) => EditingNext(kind) = Some(EmptyObject)
          /\ \A k \in 1..Len(AmList(kind)) :
                StartEdit(kind, AmList(kind)[k]) =>
                   /\ EditingNext(kind) = Some(AmList(kind)[k])
                   /\ AmList(kind)[k].id \in 1..MaxId
          /\ Save(kind) =>
                /\ Len(muts') = Len(muts) + 1
                /\ LastMut.kind = kind
                /\ LastMut.data = Form(kind)
                /\ LastMut.method = "POST" <=> Editing(kind) = Some(EmptyObject)
                /\ LastMut.method = "PUT" <=> Editing(kind) # Some(EmptyObject)
                /\ LastMut.method = "PUT" => LastMut.id = Get(Editing(kind)).id]_vars

\* An update of platform 2 is in flight with the draft as its body, next to the
\* session that sent it.
C11_Witness ==
    /\ Len(muts) = 1
    /\ muts[1].method = "PUT" /\ muts[1].id = 2
    /\ muts[1].data = Some([capex |-> 0])
    /\ editingPlatform = Some(Entity(2, PlatformCapexDefault))
    /\ platformForm = Some([capex |-> 0])

\* C12 as claimed: the draft opened by startEdit on a catalog entity whose capex is
\* non-negative has capex equal to the entity's, so that a save with no field
\* changed sends a body equal to the entity's fields without the id.
C12_StartEditCopiesEntity ==
    [][\A kind \in Kinds : \A k \in 1..Len(AmList(kind)) :
          StartEdit(kind, AmList(kind)[k]) /\ AmList(kind)[k].capex >= 0 =>
             /\ FormNext(kind) = Some([capex |-> AmList(kind)[k].capex])
             /\ SaveCall(kind, EditingNext(kind), Get(FormNext(kind))).data
                   = Some([capex |-> AmList(kind)[k].capex])]_vars

\* C13: a delete whose confirmation is declined dispatches no call at all; one
\* whose confirmation is accepted dispatches exactly one DELETE for the given id
\* and no refresh yet; when a DELETE resolves, exactly one refresh is started.
C13_DeleteGating ==
    [][/\ \A kind \in Kinds : \A k \in 1..Len(AmList(kind)) :
             LET id == AmList(kind)[k].id IN
             /\ Delete(kind, id, FALSE) =>
                   muts' = muts /\ fetches' = fetches /\ loads' = loads /\ simCalls' = simCalls
             /\ Delete(kind, id, TRUE) =>
                   /\ muts' = Append(muts, NewMut(kind, "DELETE", id, Null))
                   /\ fetches' = fetches /\ loads' = loads
       /\ \A i \in 1..Len(muts) :
             MutationOk(i) /\ muts[i].method = "DELETE" =>
                /\ muts' = RemoveAt(muts, i)
                /\ fetches' = Append(fetches, NewFetch(muts[i].orphan))
                /\ muts[i].id \notin Ids(IF muts[i].kind = "platforms"
                                         THEN dbPlatforms' ELSE dbPayloads')]_vars

\* Platform 1 was deleted: the call is gone from flight, the remote catalog no
\* longer holds it and the refresh the handler started is outstanding.
C13_Witness ==
    /\ dbPlatforms = <<Entity(2, PlatformCapexDefault)>>
    /\ Len(amPlatforms) = 2
    /\ muts = <<>> /\ mutationRejected = "none"
    /\ fetches = <<NewFetch(FALSE)>>
    /\ editingPlatform = Null

\* C14 as claimed: while a create, update or delete call is in flight, cancel, a
\* further save, startCreate, startEdit and delete change neither the editor state
\* nor the calls in flight.
C14_NoActionDuringMutation ==
    [][muts # <<>> =>
          \A kind \in Kinds :
             (\/ Cancel(kind)
              \/ Save(kind)
              \/ StartCreate(kind)
              \/ \E k \in 1..Len(AmList(kind)) : StartEdit(kind, AmList(kind)[k])
              \/ \E k \in 1..Len(AmList(kind)) : Delete(kind, AmList(kind)[k].id, TRUE))
             => UNCHANGED <<editorVars, editorCalls>>]_vars

\* C19 as claimed: when a create, update or delete call is rejected, something the
\* operator can see is produced: a notice is raised or the editor changes what it
\* shows.
C19_MutationFailureSurfaced ==
    [][(\E i \in 1..Len(muts) : MutationFail(i))
          => alertOpen' \/ editorVars' # editorVars]_vars

(***************************************************************************)
(* Refreshes and notices.                                                  *)
(***************************************************************************)
\* C15 as claimed: with the overlay closed and no call outstanding, every call
\* having completed successfully, the lists of the main view are the lists of the
\* remote catalog (nothing but an operator action changes them from there on).
C15_MainViewConverges ==
    (~showAssetManager /\ loadedOnce /\ loads = <<>> /\ muts = <<>> /\ fetches = <<>>)
        => platforms = dbPlatforms /\ payloads = dbPayloads

\* C16: every close of the overlay hides it and starts exactly one refresh of the
\* main view's cache (one loadAssets, nothing read yet), whatever was done while
\* the overlay was open.
C16_CloseRefreshesOnce ==
    [][HandleAssetManagerClose =>
          /\ showAssetManager /\ ~showAssetManager'
          /\ Len(loads') = Len(loads) + 1
          /\ SubSeq(loads', 1, Len(loads)) = loads
          /\ loads'[Len(loads')].phase = 0]_vars

\* The overlay was closed after a platform had been created through it: it is
\* hidden and the refresh of the close is outstanding.
C16_Witness ==
    /\ ~showAssetManager /\ loadedOnce
    /\ platforms = <<>> /\ Len(dbPlatforms) = 1
    /\ Len(loads) = 1 /\ loads[1].phase = 0
    /\ muts = <<>> /\ fetches = <<>>

\* C17: a refresh is all or nothing.  The lists of the main view change only when
\* a loadAssets completes, which replaces both with what its two reads returned,
\* and a failing loadAssets changes neither; the lists of the editor change only
\* when a fetchData completes, which replaces both, and a failing one changes
\* neither.
C17_RefreshAllOrNothing ==
    [][/\ \A i \in 1..Len(loads) :
             /\ LoadAssetsDone(i) => platforms' = loads[i].pRes /\ payloads' = loads[i].plRes
             /\ LoadAssetsFail(i) => platforms' = platforms /\ payloads' = payloads
       /\ (platforms' # platforms \/ payloads' # payloads) =>
             \E i \in 1..Len(loads) :
                loads[i].phase = 2 /\ platforms' = loads[i].pRes /\ payloads' = loads[i].plRes
       /\ \A i \in 1..Len(fetches) :
             /\ (FetchDataDone(i) /\ ~fetches[i].orphan) =>
                   amPlatforms' = fetches[i].pRes /\ amPayloads' = fetches[i].plRes
             /\ FetchDataFail(i) => amPlatforms' = amPlatforms /\ amPayloads' = amPayloads
       /\ (showAssetManager /\ showAssetManager'
             /\ (amPlatforms' # amPlatforms \/ amPayloads' # amPayloads)) =>
             \E i \in 1..Len(fetches) :
                /\ fetches[i].pServed /\ fetches[i].plServed
                /\ amPlatforms' = fetches[i].pRes /\ amPayloads' = fetches[i].plRes]_vars

\* The catalog was changed through the editor and a refresh of the main view
\* completed after it: both lists are the ones that refresh read.
C17_Witness ==
    /\ ~showAssetManager /\ loadedOnce /\ loads = <<>>
    /\ Len(dbPlatforms) = 1 /\ platforms = dbPlatforms
    /\ payloads = dbPayloads /\ Len(payloads) = 1
    /\ muts = <<>> /\ fetches = <<>>

\* C18 as claimed: when a refresh fails, of the main view or of the editor, a
\* notice the operator can see is raised.
C18_RefreshFailureSurfaced ==
    [][((\E i \in 1..Len(loads) : LoadAssetsFail(i))
          \/ (\E i \in 1..Len(fetches) : FetchDataFail(i)))
          => alertOpen']_vars

(***************************************************************************)
(* The failure notice of an evaluation (checked under SpecSession).        *)
(***************************************************************************)
\* C20: the failure of an evaluation call raises the notice (it was not shown, it
\* is shown after the step) and takes the call out of flight, so it is raised once
\* for that call; the notice is raised by no other step, in particular not by a
\* call that succeeds.
C20_FailureNoticeOnce ==
    [][/\ \A i \in 1..Len(simCalls) :
             /\ SimulateFail(i) =>
                   ~alertOpen /\ alertOpen' /\ Len(simCalls') = Len(simCalls) - 1
             /\ SimulateOk(i) => ~alertOpen /\ ~alertOpen'
       /\ (~alertOpen /\ alertOpen') => SimulateFails]_vars

\* The first evaluation failed: its notice is up and nothing is stored.
C20_Witness == alertOpen /\ simCalls = <<>> /\ loading /\ result = Null /\ margin = 10

C22_SuccessStoresResponse ==
    [][\A i \in 1..Len(simCalls) :
          SimulateOk(i) =>
             /\ \E r \in Responses : result' = Some(r)
             /\ ~loading' /\ simCalls' = RemoveAt(simCalls, i)
             /\ Get(result').is_feasible =>
                   LET q == Get(Render(result').quote)
                       r == Get(result')
                   IN /\ q.price_quoted = r.price_quoted
                      /\ q.lines[1] = r.platform_amortized
                      /\ q.lines[2] = r.payload_amortized
                      /\ q.margin_absolute = r.margin_absolute
                      /\ q.margin_percent = r.margin_percent]_vars

\* The scenario duration=30, radius=50, margin=30 was evaluated: the feasible
\* response is stored and 14286 and 8000 are shown.
C22_Witness ==
    /\ duration = 30 /\ radius = 50 /\ margin = 30
    /\ ~loading /\ simCalls = <<>>
    /\ result # Null /\ Get(result).is_feasible
    /\ Get(Render(result).quote).price_quoted = 14286
    /\ Get(Render(result).quote).lines[1] = 8000

\* C23: for every stored result the quote section is rendered if and only if the
\* top-level is_feasible is true, the power, flight and fleet sections are rendered
\* whatever is_feasible is, and the placeholder is not; with no result stored only
\* the placeholder is rendered.
C23_FeasibilityGating ==
    LET v == Render(result) IN
    /\ result = Null => v.sections = {"placeholder"} /\ v.quote = Null
    /\ result # Null =>
          /\ "quote" \in v.sections <=> Get(result).is_feasible
          /\ v.quote # Null <=> Get(result).is_feasible
          /\ {"power", "flight", "fleet"} \subseteq v.sections
          /\ "placeholder" \notin v.sections

\* An infeasible result whose power analysis is feasible is stored: diagnostics
\* without the quote.
C23_Witness ==
    /\ result # Null /\ ~Get(result).is_feasible /\ Get(result).power_is_feasible
    /\ Render(result).sections = {"status", "power", "flight", "fleet"}

\* C24 as claimed: for a feasible result the presenter renders four breakdown
\* lines, platform_amortized, payload_amortized, ops_cost and data_cost, each with
\* the response's value.
C24_FourBreakdownLines ==
    (result # Null /\ Get(result).is_feasible) =>
        Get(Render(result).quote).lines =
            <<Get(result).platform_amortized, Get(result).payload_amortized,
              Get(result).ops_cost, Get(result).data_cost>>

SeqSum(q) == IF Len(q) = 0 THEN 0 ELSE q[1] + (IF Len(q) = 1 THEN 0 ELSE q[2] + (IF Len(q) = 2 THEN 0 ELSE q[3]))

\* C24 as amended: for a feasible result the presenter renders three breakdown
\* lines: platform_amortized, payload_amortized, and ops_cost and data_cost added
\* up in one line; the lines shown sum to the sum of the four components.
C24_ThreeBreakdownLines ==
    (result # Null /\ Get(result).is_feasible) =>
        LET r == Get(result)
            lines == Get(Render(result).quote).lines
        IN /\ lines = <<r.platform_amortized, r.payload_amortized, r.ops_cost + r.data_cost>>
           /\ SeqSum(lines) = r.platform_amortized + r.payload_amortized + r.ops_cost + r.data_cost

\* A feasible result is shown while the next evaluation is in flight: the third
\* line is 1000, the 700 of operations and the 300 of data together.
C24_Witness ==
    /\ result # Null /\ Get(result).is_feasible /\ loading
    /\ Len(Get(Render(result).quote).lines) = 3
    /\ Get(Render(result).quote).lines[3] = 1000

\* C28 as claimed: in every reachable state month is in 1..12, duration in 7..180,
\* radius in 10..200 and margin in 10..50, and every request in flight has
\* margin_percent in [0,1).
C28_SelectionInRange ==
    /\ month \in 1..12
    /\ duration \in 7..180
    /\ radius \in 10..200
    /\ margin \in 10..50
    /\ \A k \in 1..Len(simCalls) :
          /\ simCalls[k].margin_percent.num >= 0
          /\ simCalls[k].margin_percent.num < simCalls[k].margin_percent.den

\* C30: the stored result changes only when an evaluation call succeeds, and when
\* one succeeds no other request, older or newer, is in flight: no response to an
\* older request is left to arrive after it, so the stored result is always the
\* response to the most recently dispatched request that succeeded.
C30_NewestResponseStored ==
    [][/\ \A i \in 1..Len(simCalls) :
             SimulateOk(i) => \A k \in 1..Len(simCalls) : k = i
       /\ result' # result => SimulateSucceeds]_vars

\* Idle after a success: an infeasible result is stored and nothing is in flight.
C30_Witness ==
    /\ simCalls = <<>> /\ ~loading /\ ~alertOpen
    /\ result # Null /\ ~Get(result).is_feasible /\ duration = 7

(***************************************************************************)
(* The forms of the catalog editor (checked under SpecForms).              *)
(***************************************************************************)
OtherKind(kind) == IF kind = "platforms" THEN "payloads" ELSE "platforms"

C26_CancelDiscardsDraft ==
    [][\A kind \in Kinds :
          /\ Cancel(kind) =>
                /\ EditingNext(kind) = Null /\ FormNext(kind) = Null
                /\ UNCHANGED <<muts, fetches, loads, simCalls>>
                /\ UNCHANGED <<amPlatforms, amPayloads, dbPlatforms, dbPayloads>>
          /\ (Editing(kind) = Null /\ EditingNext(kind) # Null) =>
                FormNext(kind) = Some(InitialForm(Get(EditingNext(kind)), kind))]_vars

\* A create form was filled with 0 and saved, then cancelled with the call still
\* in flight and opened again: the new draft holds the default, not the 0.
C26_Witness ==
    /\ Len(muts) = 1 /\ muts[1].method = "POST" /\ muts[1].kind = "platforms"
    /\ muts[1].data = Some([capex |-> 0])
    /\ editingPlatform = Some(EmptyObject) /\ isCreating
    /\ platformForm = Some([capex |-> PlatformCapexDefault])

(***************************************************************************)
(* Lists and seeding (checked under SpecRefresh and SpecCatalog).          *)
(***************************************************************************)
\* C27: the lists of the main view change only when a loadAssets applies what it
\* read, and the lists of the mounted editor only when a fetchData does; no save,
\* delete, cancel, startCreate or startEdit step changes a list; and every create,
\* update or delete that resolves starts one fetchData that reads both lists anew.
C27_NoOptimisticMutation ==
    [][/\ (platforms' # platforms \/ payloads' # payloads) =>
             \E i \in 1..Len(loads) : LoadAssetsDone(i)
       /\ (showAssetManager /\ showAssetManager'
             /\ (amPlatforms' # amPlatforms \/ amPayloads' # amPayloads)) =>
             \E i \in 1..Len(fetches) : FetchDataDone(i)
       /\ \A kind \in Kinds :
             (\/ Save(kind) \/ Cancel(kind) \/ StartCreate(kind)
              \/ \E k \in 1..Len(AmList(kind)) : StartEdit(kind, AmList(kind)[k])
              \/ \E k \in 1..Len(AmList(kind)) : Delete(kind, AmList(kind)[k].id, TRUE))
             => UNCHANGED <<platforms, payloads, amPlatforms, amPayloads>>
       /\ \A i \in 1..Len(muts) :
             MutationOk(i) =>
                /\ UNCHANGED <<platforms, payloads, amPlatforms, amPayloads>>
                /\ Len(fetches') = Len(fetches) + 1
                /\ ~fetches'[Len(fetches')].pServed /\ ~fetches'[Len(fetches')].plServed]_vars

\* A platform was created in an empty catalog and the editor re-fetched: its list
\* is the remote one, while the main view still holds the list it loaded.
C27_Witness ==
    /\ showAssetManager /\ muts = <<>> /\ fetches = <<>>
    /\ Len(dbPlatforms) = 1 /\ amPlatforms = dbPlatforms
    /\ loadedOnce /\ platforms = <<>> /\ loads = <<>>

\* C29 as claimed: once a refresh has completed successfully, no later refresh
\* completion assigns selected_platform_id or selected_payload_id.
C29_SeedingOnlyAtBootstrap ==
    [][(LoadAssetsCompletes /\ loadedOnce) =>
          UNCHANGED <<selectedPlatformId, selectedPayloadId>>]_vars

(***************************************************************************)
(* Sessions of the forms, request ids, the loading flag, the editor's      *)
(* lists and handleChange.                                                 *)
(***************************************************************************)
\* The call a save of the open form of `kind` would dispatch.
SaveOfOpenForm(kind) == SaveCall(kind, Editing(kind), Get(Form(kind)))

\* C31 as claimed: when a save call resolves while the open form of its kind is
\* not the session it was submitted from (its own save would go to another
\* target), that form stays open with its draft.
C31_SaveClosesOwnSessionOnly ==
    [][\A i \in 1..Len(muts) :
          (/\ MutationOk(i) /\ muts[i].method # "DELETE" /\ ~muts[i].orphan
           /\ Editing(muts[i].kind) # Null
           /\ \/ SaveOfOpenForm(muts[i].kind).method # muts[i].method
              \/ SaveOfOpenForm(muts[i].kind).id # muts[i].id)
          => /\ EditingNext(muts[i].kind) = Editing(muts[i].kind)
             /\ FormNext(muts[i].kind) = Form(muts[i].kind)]_vars

\* C32 as claimed: every request dispatched carries a platform_id and a payload_id
\* that are ids of entities of the main view's lists at the time of dispatch.
C32_RequestIdsInCache ==
    [][Len(simCalls') > Len(simCalls) =>
          /\ simCalls'[Len(simCalls')].platform_id \in Ids(platforms)
          /\ simCalls'[Len(simCalls')].payload_id \in Ids(payloads)]_vars

\* C33 as claimed: loading is true if and only if an evaluation call is outstanding.
C33_LoadingIffOutstanding == loading <=> simCalls # <<>>

\* C33 as amended: loading is true if and only if an evaluation call is outstanding
\* or the failure notice of one is still up (the flag is cleared only once the
\* notice is dismissed); in particular it is true whenever a call is outstanding.
C33_LoadingIffOutstandingOrNotice ==
    /\ loading <=> (simCalls # <<>> \/ alertOpen)
    /\ simCalls # <<>> => loading /\ ~alertOpen

\* The call failed and its notice is up: nothing is outstanding, loading is true.
C33_Witness == alertOpen /\ loading /\ simCalls = <<>> /\ month = 1

\* C34 as claimed: whenever a form is open, isCreating is true if and only if a
\* save of that form would issue a create call.
C34_IsNewIffCreate ==
    \A kind \in Kinds :
        Editing(kind) # Null => (isCreating <=> SaveOfOpenForm(kind).method = "POST")

\* C35 as claimed: with the editor mounted and no call outstanding, every call
\* having completed successfully, the editor's lists are the remote catalog's.
C35_EditorConverges ==
    (showAssetManager /\ muts = <<>> /\ fetches = <<>>)
        => amPlatforms = dbPlatforms /\ amPayloads = dbPayloads

\* C36: handleChange(field, value) sets the selection field named by `field` to
\* `value` and leaves every other selection field, the map location, the result,
\* the loading flag, the lists and the overlay as they are; with a field name it
\* does not recognise it changes nothing.
C36_HandleChangeFrame ==
    [][\A field \in HandleChangeFields : \A value \in HandleChangeValues :
          HandleChange(field, value) =>
             /\ selectedPlatformId' = IF field = "platform_id" THEN value ELSE selectedPlatformId
             /\ selectedPayloadId' = IF field = "payload_id" THEN value ELSE selectedPayloadId
             /\ month' = IF field = "month" THEN value ELSE month
             /\ duration' = IF field = "duration" THEN value ELSE duration
             /\ radius' = IF field = "target_radius_km" THEN value ELSE radius
             /\ margin' = IF field = "margin" THEN value ELSE margin
             /\ UNCHANGED <<center, result, loading, simCalls, platforms, payloads,
                            showAssetManager, loads>>
             /\ field = "altitude" => UNCHANGED vars]_vars

\* Only the month was changed, with an evaluation in flight and a result stored.
C36_Witness ==
    /\ month = 12 /\ duration = DefaultDuration /\ radius = DefaultRadius
    /\ margin = DefaultMargin /\ center = <<DefaultLat, DefaultLon>>
    /\ loading /\ Len(simCalls) = 1 /\ simCalls[1].month = DefaultMonth
    /\ result # Null

====
